---- MODULE Spec2Model ----
(***************************************************************************)
(* Content-addressed file store on DynamoDB + S3: the upload handler       *)
(* (upload_file/lambda_function.py) and the read-side helpers of the       *)
(* query handlers.  Each Lambda invocation is an independent execution;    *)
(* the only shared state is the metadata table, the counters table and     *)
(* the bucket.  One action is one store call of one invocation together    *)
(* with the local code that follows it up to the next store call or the    *)
(* return statement, so invocations interleave between store calls.        *)
(***************************************************************************)
EXTENDS Integers, Sequences, FiniteSets, TLC

\* ---- bounds of the model ------------------------------------------------
NumReqs == 2       \* upload invocations
MaxFailures == 1   \* store calls of uploads that raise for a transient reason
ScanPage == 1      \* items one Scan call examines (DynamoDB's 1 MB page)
MaxLimit == 2      \* largest 'limit' query parameter a client sends

Reqs == 1..NumReqs

\* ---- inputs ---------------------------------------------------------------
\* Decoded payloads (file_bytes), as byte sequences.
Payloads == {<<1>>, <<2, 1>>}

\* The 'filename' header: a client string (a, b) or absent/empty.
NoFilename == "none"
Filenames == {"a", "b"}

\* Event shapes the handler distinguishes before it touches a store.
EventShapes == {"ok", "no_body", "bad_headers", "undecodable"}

Events ==
    [shape : {"ok"}, file_bytes : Payloads, filename : Filenames \cup {NoFilename}]
    \cup [shape : EventShapes \ {"ok"}, file_bytes : {<<>>}, filename : {NoFilename}]

\* ---- pure functions ---------------------------------------------------------
\* hashlib.sha256(file_bytes).hexdigest(): a digest computed from the bytes
\* alone; collision-free on the payloads of the model.
RECURSIVE sha256(_)
sha256(bytes) ==
    IF bytes = <<>> THEN 7 ELSE (31 * sha256(Tail(bytes)) + Head(bytes)) % 1009

\* f"{uuid.uuid4()}.bin": the generated file name of the u-th uuid.
UuidBin(u) == <<"uuid", u>>
HeaderName(n) == <<n, 0>>

\* event['headers'].get('filename') or f"{uuid.uuid4()}.bin"
FilenameOf(ev, u) ==
    IF ev.filename = NoFilename THEN UuidBin(u) ELSE HeaderName(ev.filename)

\* s3_key = f"files/{file_hash}/{filename}"
S3Key(file_hash, filename) == <<"files", file_hash, filename>>

\* The absent item (get_item without 'Item', an empty scan result).
NoItem ==
    [file_id |-> 0, name |-> <<"", 0>>, size |-> 0, hash |-> 0, created_at |-> 0,
     s3_key |-> <<"", 0, <<"", 0>> >>]

\* The metadata dict of a new file.
Metadata(file_id, filename, file_bytes, created_at) ==
    [file_id |-> file_id, name |-> filename, size |-> Len(file_bytes),
     hash |-> sha256(file_bytes), created_at |-> created_at,
     s3_key |-> S3Key(sha256(file_bytes), filename)]

\* ---- state -------------------------------------------------------------------
VARIABLES
    keyAttr,     \* partition key of the metadata table: "hash" or "file_id"
    seeded,      \* whether an earlier upload had completed before the first one here
    dynamo,      \* the metadata table (DDB_TABLE): a set of items
    s3,          \* the bucket (S3_BUCKET): a set of objects [key, body]
    counters,    \* the 'deduplication_stats' item of DDB_COUNTERS_TABLE
    uuids,       \* uuid.uuid4() values handed out so far
    now,         \* datetime.utcnow(), as a logical clock
    pc,          \* per invocation: the store call it is about to make
    event,       \* per invocation: the event it was invoked with
    local,       \* per invocation: filename, existing_item
    response,    \* per invocation: the dict it returned
    calls,       \* per invocation: the store calls made, <<operation, succeeded>>
    doneAtStart, \* per invocation: the invocations that had returned when it began
    failures,    \* transient store failures injected so far
    query        \* the answer of the query handler that ran in the latest step

uploadVars == <<keyAttr, seeded, dynamo, s3, counters, uuids, now, pc, event, local,
                response, calls, doneAtStart, failures>>

vars == <<uploadVars, query>>

stores == <<dynamo, s3, counters>>

NoEvent == [shape |-> "none", file_bytes |-> <<>>, filename |-> NoFilename]
NoLocal == [filename |-> <<"", 0>>, existing_item |-> NoItem]
NoResponse == [statusCode |-> 0, body |-> NoItem]
NoCounters == [exists |-> FALSE, duplicates_avoided |-> 0, total_s3_size_saved |-> 0]

\* ---- the stores' operations -----------------------------------------------------
\* Table.put_item(Item=item): unconditional; an item with the same partition
\* key is replaced.
put_item(table, item) ==
    {x \in table : x[keyAttr] # item[keyAttr]} \cup {item}

\* Table.get_item(Key={'hash': h}).get('Item') on a table keyed by hash.
get_item_by_hash(table, h) ==
    IF \E x \in table : x.hash = h THEN CHOOSE x \in table : x.hash = h ELSE NoItem

\* Table.get_item(Key={'file_id': id}) on a table keyed by file_id.
get_item_by_id(table, id) ==
    IF \E x \in table : x.file_id = id THEN CHOOSE x \in table : x.file_id = id
    ELSE NoItem

\* One Scan call reads the table in the store's order (here: by partition key)
\* and stops after one page; the FilterExpression is applied to the items of
\* that page.  The handlers that scan for a hash read no LastEvaluatedKey.
ScanRank(table, x) == Cardinality({y \in table : y[keyAttr] < x[keyAttr]})
scan(table) == {x \in table : ScanRank(table, x) < ScanPage}
scan_filter_hash(table, h) == {x \in scan(table) : x.hash = h}

\* existing_items[0] if existing_items else None
first_item(table, items) ==
    IF items = {} THEN NoItem
    ELSE CHOOSE x \in items : \A y \in items : ScanRank(table, x) <= ScanRank(table, y)

\* Mutant of update_item: SET f = :zero + delta, the stored value is not read.
update_item_overwrite(c, file_size) ==
    [exists |-> TRUE, duplicates_avoided |-> 1, total_s3_size_saved |-> file_size]

\* update_item with SET f = if_not_exists(f, :zero) + delta on both fields: one
\* atomic store operation that creates the item when it is absent.
update_item(c, file_size) ==
    [exists |-> TRUE,
     duplicates_avoided |-> c.duplicates_avoided + 1,
     total_s3_size_saved |-> c.total_s3_size_saved + file_size]

\* Mutant of put_object: the object is not stored.
put_object_dropped(bucket, key, body) == bucket

\* s3.put_object(Bucket, Key, Body): the object under Key is (re)written.
put_object(bucket, key, body) ==
    {o \in bucket : o.key # key} \cup {[key |-> key, body |-> body]}

\* get_deduplication_stats() of get_stats: the counters, 0 when no item exists.
get_deduplication_stats ==
    <<IF counters.exists THEN counters.duplicates_avoided ELSE 0,
      IF counters.exists THEN counters.total_s3_size_saved ELSE 0>>

\* getRecord of get_metadata: the item of get_item(Key={'file_id': id}); on a
\* table keyed by hash that call raises and no item is returned.
getRecord(file_id) ==
    IF keyAttr = "file_id" THEN get_item_by_id(dynamo, file_id) ELSE NoItem

\* ---- the query handlers ---------------------------------------------------------
\* The cursor text: json.dumps, quote_plus and their inverses.
json_dumps(k) == <<"json", k>>
json_loads(text) == text[2]
quote_plus(text) == <<"quoted", text>>
unquote_plus(text) == IF text[1] = "quoted" THEN text[2] ELSE text

\* next_page = f"?limit={limit}&last_evaluated_key={quote_plus(json.dumps(key))}"
NoToken == [present |-> FALSE, limit |-> 0, text |-> <<"", <<"", 0>> >>]
next_page(limit, key) ==
    [present |-> TRUE, limit |-> limit, text |-> quote_plus(json_dumps(key))]

\* ExpiresIn of the presigned url; the default of the 'limit' parameter.
ExpiresIn == 3600
DefaultLimit == 10

\* s3.generate_presigned_url('get_object', Params={Bucket, Key}, ExpiresIn)
NoUrl == [key |-> NoItem.s3_key, ExpiresIn |-> 0]
generate_presigned_url(key, ttl) == [key |-> key, ExpiresIn |-> ttl]

\* What a query handler invocation was asked and what it answered.  fault:
\* the invocation ended in an exception that no handler caught.
NoQuery ==
    [handler |-> "none", id |-> 0, raised |-> FALSE, fault |-> FALSE, statusCode |-> 0,
     item |-> NoItem, url |-> NoUrl,
     total_files |-> 0, duplicates_avoided |-> 0, total_s3_size_saved |-> 0,
     limit |-> 0, hashes |-> <<>>, next_page |-> NoToken, seen |-> <<>>]

Answer(handler, pp, raised, statusCode) ==
    [NoQuery EXCEPT !.handler = handler, !.id = pp.id, !.raised = raised,
                    !.statusCode = statusCode]

\* event['pathParameters']: the key absent, null, or a dict with or without
\* 'id' (id 0: no 'id'; ids are non-empty strings, here the uuid numbers).
PathParameters ==
    [kind : {"absent", "null", "dict"}, id : {0}]
    \cup [kind : {"dict"}, id : 1..(uuids + 1)]

\* get_metadata.lambda_handler: all of it runs inside the try.
get_metadata(pp, raises) ==
    IF pp.kind = "null" THEN Answer("get_metadata", pp, FALSE, 500)
    ELSE IF pp.id = 0 THEN Answer("get_metadata", pp, FALSE, 400)
    ELSE IF keyAttr # "file_id" \/ raises THEN Answer("get_metadata", pp, raises, 500)
    ELSE LET item == get_item_by_id(dynamo, pp.id) IN
         IF item # NoItem
         THEN [Answer("get_metadata", pp, FALSE, 200) EXCEPT !.item = item]
         ELSE Answer("get_metadata", pp, FALSE, 404)

\* get_file.lambda_handler: the path parameter is read before the try.
get_file(pp, raises) ==
    IF pp.kind = "null" THEN [Answer("get_file", pp, FALSE, 0) EXCEPT !.fault = TRUE]
    ELSE IF pp.id = 0 THEN Answer("get_file", pp, FALSE, 400)
    ELSE IF keyAttr # "file_id" \/ raises THEN Answer("get_file", pp, raises, 500)
    ELSE LET item == get_item_by_id(dynamo, pp.id) IN
         IF item # NoItem
         THEN [Answer("get_file", pp, FALSE, 200)
                 EXCEPT !.url = generate_presigned_url(item.s3_key, ExpiresIn)]
         ELSE Answer("get_file", pp, FALSE, 404)

\* get_unique_file_count(): the distinct hashes among the items of one scan call.
get_unique_file_count == Cardinality({x.hash : x \in scan(dynamo)})

\* get_stats.lambda_handler
get_stats(raises) ==
    IF raises THEN Answer("get_stats", [id |-> 0], TRUE, 500)
    ELSE [Answer("get_stats", [id |-> 0], FALSE, 200)
            EXCEPT !.total_files = get_unique_file_count,
                   !.duplicates_avoided = get_deduplication_stats[1],
                   !.total_s3_size_saved = get_deduplication_stats[2]]

\* Table.scan(Limit=limit, ExclusiveStartKey=start) (start 0: none): the items
\* after start in the store's order, at most limit and at most one page of
\* them.  LastEvaluatedKey is the key of the last item read, returned when the
\* call stopped at the limit or before the end of the table.
Min(a, b) == IF a <= b THEN a ELSE b
After(table, start) == {x \in table : x[keyAttr] > start}
ScanCount(table, limit, start) ==
    Min(Min(limit, ScanPage), Cardinality(After(table, start)))
ScanItems(table, limit, start) ==
    [i \in 1..ScanCount(table, limit, start) |->
        CHOOSE x \in After(table, start) :
            Cardinality({y \in After(table, start) : y[keyAttr] < x[keyAttr]}) = i - 1]
HasLastEvaluatedKey(table, limit, start) ==
    /\ ScanCount(table, limit, start) > 0
    /\ \/ ScanCount(table, limit, start) = limit
       \/ ScanCount(table, limit, start) < Cardinality(After(table, start))

\* event['queryStringParameters']: the key absent, null, or a dict with a
\* 'limit' (DefaultLimit when it has none, 0: a limit the store rejects) and
\* maybe the 'last_evaluated_key' of an earlier next_page.
QueryStringParameters ==
    [kind : {"absent", "null"}, limit : {DefaultLimit}, last_evaluated_key : {NoToken}]
    \cup [kind : {"dict"}, limit : (0..MaxLimit) \cup {DefaultLimit},
          last_evaluated_key : {NoToken}]

\* get_hashes.lambda_handler
get_hashes(params, raises) ==
    LET limit == params.limit
        start == IF params.last_evaluated_key.present
                 THEN json_loads(unquote_plus(params.last_evaluated_key.text))
                 ELSE 0
        items == ScanItems(dynamo, limit, start)
    IN IF raises \/ limit < 1
       THEN [Answer("get_hashes", [id |-> 0], raises, 500) EXCEPT !.limit = limit]
       ELSE [Answer("get_hashes", [id |-> 0], FALSE, 200)
               EXCEPT !.limit = limit,
                      !.hashes = items,
                      !.next_page =
                          IF HasLastEvaluatedKey(dynamo, limit, start)
                          THEN next_page(limit, items[Len(items)][keyAttr])
                          ELSE NoToken]

\* ---- the initial state ----------------------------------------------------------
\* The stores outlive the invocations.  They start empty, or as one complete
\* upload of SeedBytes named "a" leaves them (item, object, one uuid, one tick).
SeedBytes == <<1>>
SeedItem == Metadata(1, HeaderName("a"), SeedBytes, 1)
SeedObject == [key |-> SeedItem.s3_key, body |-> SeedBytes]

Init ==
    /\ keyAttr \in {"hash", "file_id"}
    /\ seeded \in BOOLEAN
    /\ dynamo = IF seeded THEN {SeedItem} ELSE {}
    /\ s3 = IF seeded THEN {SeedObject} ELSE {}
    /\ counters = NoCounters
    /\ uuids = IF seeded THEN 1 ELSE 0
    /\ now = IF seeded THEN 2 ELSE 1
    /\ pc = [r \in Reqs |-> "idle"]
    /\ event = [r \in Reqs |-> NoEvent]
    /\ local = [r \in Reqs |-> NoLocal]
    /\ response = [r \in Reqs |-> NoResponse]
    /\ calls = [r \in Reqs |-> <<>>]
    /\ doneAtStart = [r \in Reqs |-> {}]
    /\ failures = 0
    /\ query = NoQuery

\* ---- upload_file.lambda_handler ---------------------------------------------------
Returned == {r \in Reqs : pc[r] = "done"}

Return(r, statusCode, body) ==
    /\ pc' = [pc EXCEPT ![r] = "done"]
    /\ response' = [response EXCEPT ![r] = [statusCode |-> statusCode, body |-> body]]

\* A store call of an upload is logged; the answer of an earlier query is no
\* longer the latest step.
Call(r, op, ok) ==
    /\ calls' = [calls EXCEPT ![r] = Append(@, <<op, ok>>)]
    /\ query' = NoQuery

file_bytes(r) == event[r].file_bytes
file_size(r) == Len(file_bytes(r))
file_hash(r) == sha256(file_bytes(r))
s3_key(r) == S3Key(file_hash(r), local[r].filename)

\* Mutant of Receive: the event is not validated before the lookup.
ReceiveUnchecked(r, ev) ==
    /\ pc[r] = "idle"
    /\ \A q \in Reqs : q < r => pc[q] # "idle"
    /\ event' = [event EXCEPT ![r] = ev]
    /\ doneAtStart' = [doneAtStart EXCEPT ![r] = Returned]
    /\ pc' = [pc EXCEPT ![r] = "get_item"]
    /\ uuids' = IF ev.filename = NoFilename THEN uuids + 1 ELSE uuids
    /\ local' = [local EXCEPT ![r].filename = FilenameOf(ev, uuids + 1)]
    /\ query' = NoQuery
    /\ UNCHANGED <<keyAttr, seeded, stores, now, calls, failures, response>>

\* Lines 46-90: validation, decoding, file name, size and hash.  Invocations
\* are numbered in the order they begin.
Receive(r, ev) ==
    /\ pc[r] = "idle"
    /\ \A q \in Reqs : q < r => pc[q] # "idle"
    /\ event' = [event EXCEPT ![r] = ev]
    /\ doneAtStart' = [doneAtStart EXCEPT ![r] = Returned]
    /\ IF ev.shape # "ok"
       THEN /\ Return(r, 400, NoItem)
            /\ UNCHANGED <<local, uuids>>
       ELSE /\ pc' = [pc EXCEPT ![r] = "get_item"]
            /\ uuids' = IF ev.filename = NoFilename THEN uuids + 1 ELSE uuids
            /\ local' = [local EXCEPT ![r].filename = FilenameOf(ev, uuids + 1)]
            /\ UNCHANGED response
    /\ query' = NoQuery
    /\ UNCHANGED <<keyAttr, seeded, stores, now, calls, failures>>

\* Lines 105-106: if existing_item: ... else fall through to the new-file path.
Branch(r, item) ==
    /\ local' = [local EXCEPT ![r].existing_item = item]
    /\ pc' = [pc EXCEPT ![r] = IF item # NoItem THEN "update_item" ELSE "put_object"]

\* Line 95: get_item by hash answers (the table is keyed by hash).
GetItem(r) ==
    /\ pc[r] = "get_item"
    /\ keyAttr = "hash"
    /\ Branch(r, get_item_by_hash(dynamo, file_hash(r)))
    /\ Call(r, "get_item", TRUE)
    /\ UNCHANGED <<keyAttr, seeded, stores, uuids, now, event, response, doneAtStart, failures>>

\* Lines 96-97: get_item raises: always when hash is not the partition key,
\* otherwise for a transient reason; the handler falls back to a scan.
GetItemRaises(r) ==
    /\ pc[r] = "get_item"
    /\ keyAttr = "file_id" \/ failures < MaxFailures
    /\ failures' = IF keyAttr = "file_id" THEN failures ELSE failures + 1
    /\ pc' = [pc EXCEPT ![r] = "scan"]
    /\ Call(r, "get_item", FALSE)
    /\ UNCHANGED <<keyAttr, seeded, stores, uuids, now, event, local, response, doneAtStart>>

\* Lines 98-103: the fallback scan answers.
Scan(r) ==
    /\ pc[r] = "scan"
    /\ Branch(r, first_item(dynamo, scan_filter_hash(dynamo, file_hash(r))))
    /\ Call(r, "scan", TRUE)
    /\ UNCHANGED <<keyAttr, seeded, stores, uuids, now, event, response, doneAtStart, failures>>

\* Lines 98-103, 180-186: the fallback scan raises, caught by the outer handler.
ScanRaises(r) ==
    /\ pc[r] = "scan"
    /\ failures < MaxFailures
    /\ failures' = failures + 1
    /\ Return(r, 500, NoItem)
    /\ Call(r, "scan", FALSE)
    /\ UNCHANGED <<keyAttr, seeded, stores, uuids, now, event, local, doneAtStart>>

\* Mutant of UpdateItem: the 409 body carries the name of the new request.
UpdateItemOwnName(r) ==
    /\ pc[r] = "update_item"
    /\ counters' = update_item(counters, file_size(r))
    /\ Return(r, 409, [local[r].existing_item EXCEPT !.name = local[r].filename])
    /\ Call(r, "update_item", TRUE)
    /\ UNCHANGED <<keyAttr, seeded, dynamo, s3, uuids, now, event, local, doneAtStart,
                   failures>>

\* Lines 109-127: the duplicate path, counters incremented.
UpdateItem(r) ==
    /\ pc[r] = "update_item"
    /\ counters' = update_item(counters, file_size(r))
    /\ Return(r, 409, local[r].existing_item)
    /\ Call(r, "update_item", TRUE)
    /\ UNCHANGED <<keyAttr, seeded, dynamo, s3, uuids, now, event, local, doneAtStart, failures>>

\* Mutant of UpdateItemRaises: the exception is not caught around the update
\* and reaches the outer handler.
UpdateItemRaisesFatal(r) ==
    /\ pc[r] = "update_item"
    /\ failures < MaxFailures
    /\ failures' = failures + 1
    /\ Return(r, 500, NoItem)
    /\ Call(r, "update_item", FALSE)
    /\ UNCHANGED <<keyAttr, seeded, stores, uuids, now, event, local, doneAtStart>>

\* Lines 119-127: the counter update raises; logged, the 409 is returned anyway.
UpdateItemRaises(r) ==
    /\ pc[r] = "update_item"
    /\ failures < MaxFailures
    /\ failures' = failures + 1
    /\ Return(r, 409, local[r].existing_item)
    /\ Call(r, "update_item", FALSE)
    /\ UNCHANGED <<keyAttr, seeded, stores, uuids, now, event, local, doneAtStart>>

\* Lines 129-139: the blob is written.
PutObject(r) ==
    /\ pc[r] = "put_object"
    /\ s3' = put_object(s3, s3_key(r), file_bytes(r))
    /\ pc' = [pc EXCEPT ![r] = "put_item"]
    /\ Call(r, "put_object", TRUE)
    /\ UNCHANGED <<keyAttr, seeded, dynamo, counters, uuids, now, event, local, response,
                   doneAtStart, failures>>

\* Mutant of PutObjectRaises: the exception is logged and the handler goes on
\* to save the metadata.
PutObjectRaisesIgnored(r) ==
    /\ pc[r] = "put_object"
    /\ failures < MaxFailures
    /\ failures' = failures + 1
    /\ pc' = [pc EXCEPT ![r] = "put_item"]
    /\ Call(r, "put_object", FALSE)
    /\ UNCHANGED <<keyAttr, seeded, stores, uuids, now, event, local, response,
                   doneAtStart>>

\* Mutant of PutObjectRaises: the metadata item had been written before the
\* blob, so it stays behind when the blob write raises.
PutObjectRaisesReserved(r) ==
    /\ pc[r] = "put_object"
    /\ failures < MaxFailures
    /\ failures' = failures + 1
    /\ uuids' = uuids + 1
    /\ now' = now + 1
    /\ dynamo' = put_item(dynamo, Metadata(uuids + 1, local[r].filename, file_bytes(r), now))
    /\ Return(r, 500, NoItem)
    /\ Call(r, "put_object", FALSE)
    /\ UNCHANGED <<keyAttr, seeded, s3, counters, event, local, doneAtStart>>

\* Lines 140-146: the blob write raises.
PutObjectRaises(r) ==
    /\ pc[r] = "put_object"
    /\ failures < MaxFailures
    /\ failures' = failures + 1
    /\ Return(r, 500, NoItem)
    /\ Call(r, "put_object", FALSE)
    /\ UNCHANGED <<keyAttr, seeded, stores, uuids, now, event, local, doneAtStart>>

\* Lines 148-178: file_id and created_at are generated, the item is put.
PutItem(r) ==
    /\ pc[r] = "put_item"
    /\ uuids' = uuids + 1
    /\ now' = now + 1
    /\ LET metadata == Metadata(uuids + 1, local[r].filename, file_bytes(r), now)
       IN /\ dynamo' = put_item(dynamo, metadata)
          /\ Return(r, 201, metadata)
    /\ Call(r, "put_item", TRUE)
    /\ UNCHANGED <<keyAttr, seeded, s3, counters, event, local, doneAtStart, failures>>

\* Lines 165-171: the metadata write raises.
PutItemRaises(r) ==
    /\ pc[r] = "put_item"
    /\ failures < MaxFailures
    /\ failures' = failures + 1
    /\ uuids' = uuids + 1
    /\ now' = now + 1
    /\ Return(r, 500, NoItem)
    /\ Call(r, "put_item", FALSE)
    /\ UNCHANGED <<keyAttr, seeded, stores, event, local, doneAtStart>>

Next ==
    \E r \in Reqs :
        \/ \E ev \in Events : Receive(r, ev)
        \/ GetItem(r)
        \/ GetItemRaises(r)
        \/ Scan(r)
        \/ ScanRaises(r)
        \/ UpdateItem(r)
        \/ UpdateItemRaises(r)
        \/ PutObject(r)
        \/ PutObjectRaises(r)
        \/ PutItem(r)
        \/ PutItemRaises(r)

Spec == Init /\ [][Next]_vars

\* ---- the query handlers' invocations ----------------------------------------------
\* Each runs as one step: get_metadata, get_file and get_hashes make one store
\* call, get_stats reads the table and then the counters.  The handlers keep
\* no state; the model observes one query, or one listing, between two steps
\* of the uploads.
Idle == query.handler = "none"

GetMetadata(pp, raises) ==
    /\ Idle
    /\ query' = get_metadata(pp, raises)
    /\ UNCHANGED uploadVars

GetFile(pp, raises) ==
    /\ Idle
    /\ query' = get_file(pp, raises)
    /\ UNCHANGED uploadVars

GetStats(raises) ==
    /\ Idle
    /\ query' = get_stats(raises)
    /\ UNCHANGED uploadVars

\* A client lists from the start ...
GetHashes(params, raises) ==
    /\ Idle
    /\ LET answer == get_hashes(params, raises)
       IN query' = [answer EXCEPT !.seen = answer.hashes]
    /\ UNCHANGED uploadVars

\* ... and follows next_page for as long as the answer carries one; seen
\* collects the items of the pages.
GetHashesNext(raises) ==
    /\ query.handler = "get_hashes"
    /\ query.statusCode = 200
    /\ query.next_page.present
    /\ LET answer == get_hashes([kind |-> "dict", limit |-> query.next_page.limit,
                                 last_evaluated_key |-> query.next_page], raises)
       IN query' = [answer EXCEPT !.seen = query.seen \o answer.hashes]
    /\ UNCHANGED uploadVars

QueryNext ==
    \/ Next
    \/ \E pp \in PathParameters, raises \in BOOLEAN : GetMetadata(pp, raises)
    \/ \E pp \in PathParameters, raises \in BOOLEAN : GetFile(pp, raises)
    \/ \E raises \in BOOLEAN : GetStats(raises)
    \/ \E params \in QueryStringParameters, raises \in BOOLEAN : GetHashes(params, raises)
    \/ \E raises \in BOOLEAN : GetHashesNext(raises)

QuerySpec == Init /\ [][QueryNext]_vars

\* ---- vocabulary of the properties ----------------------------------------------
Hashes == {sha256(p) : p \in Payloads}
Done(r) == pc[r] = "done"
Status(r) == response[r].statusCode
Made(r, op, ok) == \E i \in 1..Len(calls[r]) : calls[r][i] = <<op, ok>>
\* A store failure: a store call that raised, other than the get_item by hash
\* that a table keyed by file_id always rejects.
StoreFailure(r) ==
    \E i \in 1..Len(calls[r]) :
        /\ ~calls[r][i][2]
        /\ ~(keyAttr = "file_id" /\ calls[r][i][1] = "get_item")
Uploads(h) == {r \in Reqs : event[r].shape = "ok" /\ file_hash(r) = h}
InitiallyStored(h) == seeded /\ h = SeedItem.hash
Concurrent(r, q) == r # q /\ r \notin doneAtStart[q] /\ q \notin doneAtStart[r]
BlobsOf(h) == {o \in s3 : o.key[2] = h}
RecordsOf(h) == {x \in dynamo : x.hash = h}
Duplicates == {r \in Reqs : Done(r) /\ Status(r) = 409}

RECURSIVE SumSizes(_)
SumSizes(S) ==
    IF S = {} THEN 0
    ELSE LET r == CHOOSE x \in S : TRUE IN file_size(r) + SumSizes(S \ {r})

\* ---- C1 -------------------------------------------------------------------------
\* C1: when N >= 2 uploads of one payload whose hash was not stored run
\* concurrently and no store call raises, exactly one returns 201 and N-1
\* return 409, exactly one blob write occurs and the counter is incremented
\* exactly N-1 times.
C1_ConcurrentRace ==
    \A h \in Hashes :
        LET U == Uploads(h) IN
        ( /\ Cardinality(U) >= 2
          /\ ~InitiallyStored(h)
          /\ \A r \in U : Done(r) /\ ~StoreFailure(r)
          /\ \A r, q \in U : r # q => Concurrent(r, q) )
        => /\ Cardinality({r \in U : Status(r) = 201}) = 1
           /\ Cardinality({r \in U : Status(r) = 409}) = Cardinality(U) - 1
           /\ Cardinality({r \in U : Made(r, "put_object", TRUE)}) = 1
           /\ Cardinality({r \in U : Made(r, "update_item", TRUE)}) = Cardinality(U) - 1

\* ---- C2 -------------------------------------------------------------------------
\* C2: in every reachable state the bucket holds at most one blob per content
\* hash and the metadata table at most one item per content hash.
C2_OnePerHash ==
    \A h \in Hashes :
        /\ Cardinality(BlobsOf(h)) <= 1
        /\ Cardinality(RecordsOf(h)) <= 1

\* ---- C3 -------------------------------------------------------------------------
\* C3: when the uploads of a payload whose hash was not stored run one after
\* the other, the later ones starting after the first returned, and no store
\* failure occurs in them, the first returns 201, every later one that has
\* returned returns 409, and the bucket holds exactly one blob of that hash,
\* under the storage key of the first.
C3_SequentialDedup ==
    \A h \in Hashes : \A r1 \in Uploads(h) :
        ( /\ ~InitiallyStored(h)
          /\ Done(r1)
          /\ \A q \in Uploads(h) : ~StoreFailure(q)
          /\ \A q \in Uploads(h) \ {r1} : r1 \in doneAtStart[q] )
        => /\ Status(r1) = 201
           /\ \A q \in Uploads(h) \ {r1} : Done(q) => Status(q) = 409
           /\ BlobsOf(h) = {[key |-> s3_key(r1), body |-> file_bytes(r1)]}
           /\ response[r1].body.s3_key = s3_key(r1)

\* ---- C4 -------------------------------------------------------------------------
\* C4: once an upload has returned 201 with record R, R is in the metadata
\* table unchanged in every later state and getRecord(R.file_id) returns R.
C4_RecordKept ==
    \A r \in Reqs :
        (Done(r) /\ Status(r) = 201)
        => /\ response[r].body \in dynamo
           /\ getRecord(response[r].body.file_id) = response[r].body

\* ---- C5 -------------------------------------------------------------------------
\* C5: as long as no counter update has raised, the counters getStats reads
\* are the number of uploads that returned 409 and the sum of their payload
\* sizes, and no upload that returned 201 made a counter update.
C5_StatsConsistent ==
    (\A r \in Reqs : ~Made(r, "update_item", FALSE))
    => /\ get_deduplication_stats = <<Cardinality(Duplicates), SumSizes(Duplicates)>>
       /\ \A r \in Reqs : Status(r) = 201 => ~Made(r, "update_item", TRUE)

\* Two uploads returned 409 and both increments are in the counters.
C5_Witness ==
    /\ Cardinality(Duplicates) = 2
    /\ \A r \in Reqs : ~Made(r, "update_item", FALSE)
    /\ counters.duplicates_avoided = 2

\* ---- C6 -------------------------------------------------------------------------
\* C6: an upload calls put_object only after its own put_item has succeeded.
C6_MetadataBeforeBlob ==
    \A r \in Reqs : \A i \in 1..Len(calls[r]) :
        calls[r][i][1] = "put_object"
        => \E j \in 1..(i - 1) : calls[r][j] = <<"put_item", TRUE>>

\* ---- C7 -------------------------------------------------------------------------
\* C7: no two uploads of the same content hash have both come out of the
\* existence check as 'new'.
DecidedNew(r) ==
    pc[r] \in {"put_object", "put_item"} \/ \E ok \in BOOLEAN : Made(r, "put_object", ok)

C7_SingleWinner ==
    \A r, q \in Reqs :
        (r # q /\ DecidedNew(r) /\ DecidedNew(q)) => file_hash(r) # file_hash(q)

\* ---- C8 -------------------------------------------------------------------------
\* C8: an upload whose lookup finds an item reads it from the table (an item of
\* its content hash), and then returns 409 carrying exactly that item while the
\* bucket and the metadata table stay as they are.
FoundExisting(r) == pc[r] \in {"get_item", "scan"} /\ pc'[r] = "update_item"
DuplicateReturn(r) == pc[r] = "update_item" /\ pc'[r] = "done"

C8_DuplicateFrame ==
    [][\A r \in Reqs :
        /\ FoundExisting(r)
           => /\ local'[r].existing_item \in dynamo
              /\ local'[r].existing_item.hash = file_hash(r)
              /\ stores' = stores
        /\ DuplicateReturn(r)
           => /\ response'[r] = [statusCode |-> 409, body |-> local[r].existing_item]
              /\ dynamo' = dynamo
              /\ s3' = s3]_vars

\* A 409 was returned whose record carries another name than the request's.
C8_Witness ==
    \E r \in Reqs :
        /\ Done(r) /\ Status(r) = 409
        /\ Made(r, "update_item", TRUE)
        /\ response[r].body.name # local[r].filename
        /\ response[r].body.file_id > 0

\* ---- C9 -------------------------------------------------------------------------
\* C9: when the counter update raises, the upload returns 409 with the existing
\* item and leaves counters, metadata table and bucket unchanged.
CounterUpdateRaises(r) ==
    pc[r] = "update_item" /\ calls'[r] = Append(calls[r], <<"update_item", FALSE>>)

C9_CounterFailureTolerated ==
    [][\A r \in Reqs :
        CounterUpdateRaises(r)
        => /\ pc'[r] = "done"
           /\ response'[r].statusCode = 409
           /\ response'[r].body = local[r].existing_item
           /\ local[r].existing_item # NoItem
           /\ stores' = stores]_vars

\* A 409 was returned after a counter update that raised.
C9_Witness ==
    \E r \in Reqs :
        /\ Done(r) /\ Status(r) = 409
        /\ Made(r, "update_item", FALSE)
        /\ ~counters.exists

\* ---- C10 ------------------------------------------------------------------------
\* C10: an upload whose blob write raised returns 500, never 201 or 409; and
\* when an upload returns 201, the returned record is in the metadata table and
\* the blob is in the bucket under the record's s3_key.
Returns(r) == pc[r] # "done" /\ pc'[r] = "done"

C11_RetrySafe ==
    \A h \in Hashes : \A r1, r2 \in Uploads(h) :
        ( /\ Uploads(h) = {r1, r2} /\ r1 # r2
          /\ ~InitiallyStored(h)
          /\ event[r1] = event[r2]
          /\ Done(r1) /\ Status(r1) = 500 /\ StoreFailure(r1)
          /\ r1 \in doneAtStart[r2]
          /\ Done(r2) /\ ~StoreFailure(r2) )
        => /\ Status(r2) \in {201, 409}
           /\ Cardinality(RecordsOf(h)) = 1
           /\ Cardinality(BlobsOf(h)) = 1

\* ---- C13 ------------------------------------------------------------------------
\* C13: an upload whose event has no body, no usable headers or a body that
\* does not decode returns 400 at once, having made no store call and with
\* the stores as they were.
Begins(r) == pc[r] = "idle" /\ pc'[r] # "idle"

C13_InvalidPayloadRejected ==
    [][\A r \in Reqs :
        (Begins(r) /\ event'[r].shape # "ok")
        => /\ pc'[r] = "done"
           /\ response'[r] = [statusCode |-> 400, body |-> NoItem]
           /\ calls'[r] = <<>>
           /\ stores' = stores]_vars

\* An upload with a body that does not decode was answered 400.
C13_Witness ==
    \E r \in Reqs :
        /\ event[r].shape = "undecodable"
        /\ Done(r) /\ Status(r) = 400 /\ calls[r] = <<>>

\* ---- C17 ------------------------------------------------------------------------
\* C17: an upload whose get_item by hash raised for a transient reason (on a
\* table keyed by hash) makes no further store call and, once returned, has
\* returned 500.
C17_LookupFailureSurfaces ==
    \A r \in Reqs :
        (keyAttr = "hash" /\ Made(r, "get_item", FALSE))
        => /\ Len(calls[r]) = 1
           /\ Done(r) => Status(r) = 500

\* ---- C18 ------------------------------------------------------------------------
\* C18: every upload makes at most one blob put, one metadata insert and one
\* counter increment, never a counter increment together with a blob or
\* metadata write, reserves its metadata item before it stores the blob
\* (Reserved -> BlobStored), and can always take a further step until it has
\* returned.
CountOf(r, op) == Cardinality({i \in 1..Len(calls[r]) : calls[r][i][1] = op})

UploadStep(r) ==
    \/ GetItem(r) \/ GetItemRaises(r) \/ Scan(r) \/ UpdateItem(r)
    \/ PutObject(r) \/ PutItem(r)

C18_StateMachine ==
    \A r \in Reqs :
        /\ CountOf(r, "put_object") <= 1
        /\ CountOf(r, "put_item") <= 1
        /\ CountOf(r, "update_item") <= 1
        /\ CountOf(r, "update_item") = 0
           \/ CountOf(r, "put_object") + CountOf(r, "put_item") = 0
        /\ pc[r] \in {"put_object", "put_item"} \/ Made(r, "put_object", TRUE)
           => /\ pc[r] # "put_object"
              /\ \E i \in 1..Len(calls[r]) :
                    /\ calls[r][i] = <<"put_item", TRUE>>
                    /\ \A j \in 1..i : calls[r][j][1] # "put_object"
        /\ pc[r] \notin {"idle", "done"} => ENABLED UploadStep(r)

\* ---- C19 ------------------------------------------------------------------------
\* C19: in every reachable state every item of the metadata table has an
\* object in the bucket under its s3_key, holding bytes of the item's hash.
C19_RecordHasBlob ==
    \A x \in dynamo :
        \E o \in s3 : o.key = x.s3_key /\ sha256(o.body) = x.hash /\ Len(o.body) = x.size

\* An upload stored a record after another upload of the same content had
\* failed at a store call.
C19_Witness ==
    \E r, q \in Reqs :
        /\ r # q /\ Done(r) /\ Done(q) /\ file_hash(r) = file_hash(q)
        /\ Status(r) = 201 /\ response[r].body \in dynamo
        /\ Status(q) = 500 /\ StoreFailure(q)

\* ---- C20 ------------------------------------------------------------------------
\* C20: the step in which the blob write raises returns 500 and leaves the
\* metadata table, the counters and the bucket unchanged; and an upload of
\* the same payload that starts after it and runs without store failure, no
\* other upload of that content being there, returns 201.
BlobWriteRaises(r) ==
    pc[r] = "put_object" /\ calls'[r] = Append(calls[r], <<"put_object", FALSE>>)

TreatedAsNew ==
    \A r1, r2 \in Reqs :
        ( /\ r1 # r2 /\ Done(r1) /\ Done(r2)
          /\ r1 \in doneAtStart[r2]
          /\ Made(r1, "put_object", FALSE)
          /\ ~StoreFailure(r2)
          /\ event[r2].shape = "ok"
          /\ file_hash(r1) = file_hash(r2)
          /\ ~InitiallyStored(file_hash(r1))
          /\ Uploads(file_hash(r1)) = {r1, r2} )
        => Status(r2) = 201

C20_BlobFailureLeavesNoTrace ==
    [][/\ \A r \in Reqs :
            BlobWriteRaises(r)
            => /\ pc'[r] = "done"
               /\ response'[r].statusCode = 500
               /\ stores' = stores
       /\ TreatedAsNew']_vars

\* An upload returned 201 after an earlier upload of the same payload had
\* failed at its blob write.
C20_Witness ==
    \E r1, r2 \in Reqs :
        /\ r1 # r2 /\ Done(r1) /\ Done(r2)
        /\ event[r1].shape = "ok" /\ event[r2].shape = "ok"
        /\ file_hash(r1) = file_hash(r2)
        /\ Made(r1, "put_object", FALSE) /\ Status(r1) = 500
        /\ r1 \in doneAtStart[r2] /\ Status(r2) = 201

\* ---- C12 ------------------------------------------------------------------------
\* C12: every invocation of a handler ends by returning a response with a
\* status code, never in an uncaught exception.
C12_NoUncaughtFault ==
    /\ \A r \in Reqs : Done(r) => Status(r) \in {201, 400, 409, 500}
    /\ query.handler # "none"
       => ~query.fault /\ query.statusCode \in {200, 400, 404, 500}

\* ---- C14 ------------------------------------------------------------------------
\* C14: get_metadata and get_file, asked for a file_id and with no transient
\* store failure, answer 404 when no item has that file_id, and otherwise 200
\* with that item, respectively with a link for the item's s3_key that expires
\* in 3600 seconds.
ItemsWithId(id) == {x \in dynamo : x.file_id = id}

C14_LookupById ==
    (query.handler \in {"get_metadata", "get_file"} /\ query.id # 0 /\ ~query.raised)
    => /\ ItemsWithId(query.id) = {} => query.statusCode = 404
       /\ \A x \in ItemsWithId(query.id) :
            /\ query.statusCode = 200
            /\ query.handler = "get_metadata" => query.item = x
            /\ query.handler = "get_file" => query.url = [key |-> x.s3_key, ExpiresIn |-> 3600]

\* ---- C15 ------------------------------------------------------------------------
\* C15: listing a table of K items with a page size L, 1 <= L < K, from the
\* start and along next_page: the items seen are distinct items of the table,
\* an answer without next_page ends the listing with every item seen, and an
\* answer carries next_page only when items remain unseen.
SeenSet == {query.seen[i] : i \in 1..Len(query.seen)}

C15_PaginationComplete ==
    ( /\ query.handler = "get_hashes" /\ query.statusCode = 200
      /\ 1 <= query.limit /\ query.limit < Cardinality(dynamo) )
    => /\ SeenSet \subseteq dynamo
       /\ Cardinality(SeenSet) = Len(query.seen)
       /\ ~query.next_page.present => SeenSet = dynamo
       /\ query.next_page.present => SeenSet # dynamo

\* ---- C16 ------------------------------------------------------------------------
\* C16: get_stats answers total_files = the number of distinct hashes in the
\* metadata table, and both counters as 0 while no counters item exists.
C16_StatsCount ==
    (query.handler = "get_stats" /\ query.statusCode = 200)
    => /\ query.total_files = Cardinality({x.hash : x \in dynamo})
       /\ ~counters.exists
          => query.duplicates_avoided = 0 /\ query.total_s3_size_saved = 0

====
